---- MODULE Spec2Model ----
(***************************************************************************)
(* Model of reaport/aircraft: the aircraft-instance store kept in Redis    *)
(* (services/aircraft_service.py), the capacity-checked setters of the     *)
(* instance (models/aircraft_instance.py) and the landing handler          *)
(* (routers/aircraft.py).                                                  *)
(*                                                                         *)
(* The backend is one variable, redis, with the three key families the     *)
(* service uses: flight:{flight_id} (serialized instance),                 *)
(* aircraft_to_flight:{aircraft_id} (flight id) and the set flights:all.   *)
(* Each service method is an operator from a backend state to a result     *)
(* carrying the HTTP status, the kind of error message and the backend     *)
(* state it leaves; each request is one action that applies the method     *)
(* and records the response in last.                                       *)
(***************************************************************************)
EXTENDS Integers, Sequences, FiniteSets, TLC

VARIABLES
    aircraft,   \* aircraft_config.aircraft: model name -> capacities, loaded at import
    redis,      \* backend: [flight, aircraft_to_flight, flights_all]
    last,       \* response of the last request: [op, status, detail, ret]
    outbox,     \* gateway calls made by the last request, in order
    gw,         \* the gateway call in progress: settings, loop locals, history
    proc        \* requests in progress step by step: request -> position and locals

vars == <<aircraft, redis, last, outbox, gw, proc>>

\* ------------------------------------------------------------------------
\* Universe of inputs
\* ------------------------------------------------------------------------
None == "None"

Flights == {"FL100", "FL200"}
LedgerFlights == {"FL100"}
Ids == {"AC1", "AC2"}
NodeIds == {"N1"}

\* how far below 0 and how far above the largest capacity request values go
MaxNeg == 1
MaxOver == 1
\* HTTP attempts followed in one gateway call
MaxAttempts == 4

\* configuration of the identity specification: two models with different
\* capacities, every resource with a positive capacity in one of them
SmallConfig ==
    [A320 |-> [passenger_capacity |-> 1, baggage_capacity_kg |-> 0,
               water_capacity |-> 1, fuel_capacity |-> 0],
     B737 |-> [passenger_capacity |-> 0, baggage_capacity_kg |-> 1,
               water_capacity |-> 0, fuel_capacity |-> 1]]

\* configuration of the ledger specification: one model, every capacity
\* positive, the passenger capacity different from the other three
LedgerConfig ==
    [A320 |-> [passenger_capacity |-> 2, baggage_capacity_kg |-> 1,
               water_capacity |-> 1, fuel_capacity |-> 1]]

Max(S) == CHOOSE x \in S : \A y \in S : y <= x

MaxCapacity(cfg) ==
    Max(UNION {{cfg[m].passenger_capacity, cfg[m].baggage_capacity_kg,
                cfg[m].water_capacity, cfg[m].fuel_capacity} : m \in DOMAIN cfg})

\* model argument of generate_random: omitted, configured, or unknown
ModelArgs == {None, "A320", "B737", "X999"}

\* ------------------------------------------------------------------------
\* AircraftInstance (models/aircraft_instance.py)
\* ------------------------------------------------------------------------
\* variant: passenger and baggage capacities taken from each other's entry
Mut_AircraftInstance_swapped_capacity(model, flight_id, cfg, p, b, w, fu) ==
    [id |-> None, model |-> model, flight_id |-> flight_id, node_id |-> None,
     baggage_capacity_kg |-> cfg.passenger_capacity,
     passenger_capacity |-> cfg.baggage_capacity_kg,
     water_capacity |-> cfg.water_capacity,
     fuel_capacity |-> cfg.fuel_capacity,
     actual_passengers |-> p, actual_baggage_kg |-> b,
     actual_water_kg |-> w, actual_fuel_kg |-> fu]

AircraftInstance(model, flight_id, cfg, p, b, w, fu) ==
    [id |-> None, model |-> model, flight_id |-> flight_id, node_id |-> None,
     baggage_capacity_kg |-> cfg.baggage_capacity_kg,
     passenger_capacity |-> cfg.passenger_capacity,
     water_capacity |-> cfg.water_capacity,
     fuel_capacity |-> cfg.fuel_capacity,
     actual_passengers |-> p, actual_baggage_kg |-> b,
     actual_water_kg |-> w, actual_fuel_kg |-> fu]

\* the JSON document is the sequence of field values in declaration order
model_dump_json(a) ==
    <<a.id, a.model, a.flight_id, a.node_id,
      a.baggage_capacity_kg, a.passenger_capacity, a.water_capacity, a.fuel_capacity,
      a.actual_passengers, a.actual_baggage_kg, a.actual_water_kg, a.actual_fuel_kg>>

model_validate_json(d) ==
    [id |-> d[1], model |-> d[2], flight_id |-> d[3], node_id |-> d[4],
     baggage_capacity_kg |-> d[5], passenger_capacity |-> d[6],
     water_capacity |-> d[7], fuel_capacity |-> d[8],
     actual_passengers |-> d[9], actual_baggage_kg |-> d[10],
     actual_water_kg |-> d[11], actual_fuel_kg |-> d[12]]

\* setters: [ok, aircraft]; ok = FALSE is the ValueError, the instance untouched
Instance_update_passengers(a, count) ==
    IF count > a.passenger_capacity
    THEN [ok |-> FALSE, aircraft |-> a]
    ELSE [ok |-> TRUE, aircraft |-> [a EXCEPT !.actual_passengers = count]]

\* mutant: the baggage setter compares with the passenger capacity
Mut_Instance_update_baggage_wrong_capacity(a, weight) ==
    IF weight > a.passenger_capacity
    THEN [ok |-> FALSE, aircraft |-> a]
    ELSE [ok |-> TRUE, aircraft |-> [a EXCEPT !.actual_baggage_kg = weight]]

Instance_update_baggage(a, weight) ==
    IF weight > a.baggage_capacity_kg
    THEN [ok |-> FALSE, aircraft |-> a]
    ELSE [ok |-> TRUE, aircraft |-> [a EXCEPT !.actual_baggage_kg = weight]]

Instance_update_water(a, weight) ==
    IF weight > a.water_capacity
    THEN [ok |-> FALSE, aircraft |-> a]
    ELSE [ok |-> TRUE, aircraft |-> [a EXCEPT !.actual_water_kg = weight]]

\* mutant: the fuel setter also forgets the node
Mut_Instance_update_fuel_clears_node(a, weight) ==
    IF weight > a.fuel_capacity
    THEN [ok |-> FALSE, aircraft |-> a]
    ELSE [ok |-> TRUE, aircraft |-> [a EXCEPT !.actual_fuel_kg = weight, !.node_id = None]]

Instance_update_fuel(a, weight) ==
    IF weight > a.fuel_capacity
    THEN [ok |-> FALSE, aircraft |-> a]
    ELSE [ok |-> TRUE, aircraft |-> [a EXCEPT !.actual_fuel_kg = weight]]

\* variant: the node is not taken over
Mut_Instance_update_node_id_noop(a, node_id) ==
    [ok |-> TRUE, aircraft |-> a]

Instance_update_node_id(a, node_id) ==
    [ok |-> TRUE, aircraft |-> [a EXCEPT !.node_id = node_id]]

\* ------------------------------------------------------------------------
\* Backend key operations (redis.asyncio client)
\* ------------------------------------------------------------------------
EmptyMap == [k \in {} |-> None]
EmptyRedis == [flight |-> EmptyMap, aircraft_to_flight |-> EmptyMap, flights_all |-> {}]

Put(fn, k, v) == [x \in DOMAIN fn \cup {k} |-> IF x = k THEN v ELSE fn[x]]
Drop(fn, k) == [x \in DOMAIN fn \ {k} |-> fn[x]]

\* ------------------------------------------------------------------------
\* AircraftService (services/aircraft_service.py).  A method takes the
\* backend state r it starts from and returns status, detail (which error
\* message), the instance it returns and the backend state it leaves.
\* ------------------------------------------------------------------------
Ok(r, a) == [status |-> 200, detail |-> "ok", aircraft |-> a, redis |-> r]
Err(r, status, detail) == [status |-> status, detail |-> detail, redis |-> r]

get_by_flight_id(r, flight_id) ==
    IF flight_id \notin DOMAIN r.flight
    THEN Err(r, 404, "no_flight")
    ELSE Ok(r, model_validate_json(r.flight[flight_id]))

\* mutant: get_by_id reads flight:{aircraft_id} instead of resolving the index
Mut_get_by_id_flight_key(r, aircraft_id) ==
    IF aircraft_id \notin DOMAIN r.flight
    THEN Err(r, 404, "no_mapping")
    ELSE Ok(r, model_validate_json(r.flight[aircraft_id]))

get_by_id(r, aircraft_id) ==
    IF aircraft_id \notin DOMAIN r.aircraft_to_flight
    THEN Err(r, 404, "no_mapping")
    ELSE LET flight_id_str == r.aircraft_to_flight[aircraft_id] IN
         IF flight_id_str \notin DOMAIN r.flight
         THEN Err(r, 404, "no_flight_data")
         ELSE Ok(r, model_validate_json(r.flight[flight_id_str]))

\* mutant: the already-exists error raised inside the try block is swallowed
\* with the 404, so the assignment goes on
Mut_set_aircraft_id_swallow(r, flight_id, aircraft_id) ==
    LET got == get_by_flight_id(r, flight_id) IN
    IF got.status # 200 THEN got
    ELSE LET a == [got.aircraft EXCEPT !.id = aircraft_id]
             r1 == [r EXCEPT !.flight = Put(@, flight_id, model_dump_json(a))]
             r2 == [r1 EXCEPT !.aircraft_to_flight = Put(@, aircraft_id, flight_id)]
         IN Ok(r2, a)

\* mutant: the aircraft_to_flight entry is not written
Mut_set_aircraft_id_no_mapping(r, flight_id, aircraft_id) ==
    LET got == get_by_flight_id(r, flight_id) IN
    IF got.status # 200 THEN got
    ELSE LET existing == get_by_id(r, aircraft_id) IN
         IF existing.status = 200 THEN Err(r, 400, "exists")
         ELSE IF existing.status # 404 THEN existing
         ELSE LET a == [got.aircraft EXCEPT !.id = aircraft_id]
                  r1 == [r EXCEPT !.flight = Put(@, flight_id, model_dump_json(a))]
              IN Ok(r1, a)

\* mutant: an id that already maps to the same flight is assigned again
Mut_set_aircraft_id_same_flight_ok(r, flight_id, aircraft_id) ==
    LET got == get_by_flight_id(r, flight_id) IN
    IF got.status # 200 THEN got
    ELSE LET existing == get_by_id(r, aircraft_id) IN
         IF existing.status = 200 /\ existing.aircraft.flight_id # flight_id
         THEN Err(r, 400, "exists")
         ELSE IF existing.status \notin {200, 404} THEN existing
         ELSE LET a == [got.aircraft EXCEPT !.id = aircraft_id]
                  r1 == [r EXCEPT !.flight = Put(@, flight_id, model_dump_json(a))]
                  r2 == [r1 EXCEPT !.aircraft_to_flight = Put(@, aircraft_id, flight_id)]
              IN Ok(r2, a)

set_aircraft_id(r, flight_id, aircraft_id) ==
    LET got == get_by_flight_id(r, flight_id) IN
    IF got.status # 200 THEN got
    ELSE LET existing == get_by_id(r, aircraft_id) IN
         IF existing.status = 200 THEN Err(r, 400, "exists")
         ELSE IF existing.status # 404 THEN existing
         ELSE LET a == [got.aircraft EXCEPT !.id = aircraft_id]
                  r1 == [r EXCEPT !.flight = Put(@, flight_id, model_dump_json(a))]
                  r2 == [r1 EXCEPT !.aircraft_to_flight = Put(@, aircraft_id, flight_id)]
              IN Ok(r2, a)

\* ------------------------------------------------------------------------
\* set_aircraft_id one backend operation at a time.  Every awaited redis call
\* is a suspension point where another request can run; p holds the request's
\* position and locals: the arguments, the flight document read (data) and
\* the flight the index named (mapped).
\* ------------------------------------------------------------------------
Requests == {"r1", "r2"}

NoData == <<>>

\* a request entering set_aircraft_id(flight_id, aircraft_id)
set_aircraft_id_begin(flight_id, aircraft_id) ==
    [pc |-> "get_flight", flight_id |-> flight_id, aircraft_id |-> aircraft_id,
     data |-> NoData, mapped |-> None, status |-> 0, detail |-> "running"]

NoRequests == [q \in Requests |-> [set_aircraft_id_begin(None, None) EXCEPT !.pc = "idle"]]

\* variant: the index entry is written first, the flight record second
Mut_set_aircraft_id_step_index_first(r, p) ==
    LET Goto(pc) == [redis |-> r, proc |-> [p EXCEPT !.pc = pc]]
        Done(status, detail) ==
            [redis |-> r,
             proc |-> [p EXCEPT !.pc = "done", !.status = status, !.detail = detail]]
    IN
    CASE p.pc = "get_flight" ->
           IF p.flight_id \notin DOMAIN r.flight THEN Done(404, "no_flight")
           ELSE [redis |-> r,
                 proc |-> [p EXCEPT !.pc = "get_mapping", !.data = r.flight[p.flight_id]]]
      [] p.pc = "get_mapping" ->
           IF p.aircraft_id \notin DOMAIN r.aircraft_to_flight THEN Goto("set_flight")
           ELSE [redis |-> r,
                 proc |-> [p EXCEPT !.pc = "get_mapped_flight",
                                    !.mapped = r.aircraft_to_flight[p.aircraft_id]]]
      [] p.pc = "get_mapped_flight" ->
           IF p.mapped \notin DOMAIN r.flight THEN Goto("set_flight")
           ELSE Done(400, "exists")
      [] p.pc = "set_flight" ->
           [redis |-> [r EXCEPT !.aircraft_to_flight = Put(@, p.aircraft_id, p.flight_id)],
            proc |-> [p EXCEPT !.pc = "set_mapping"]]
      [] p.pc = "set_mapping" ->
           LET a == [model_validate_json(p.data) EXCEPT !.id = p.aircraft_id] IN
           [redis |-> [r EXCEPT !.flight = Put(@, p.flight_id, model_dump_json(a))],
            proc |-> [p EXCEPT !.pc = "done", !.status = 200, !.detail = "ok",
                               !.data = model_dump_json(a)]]

\* variant: the flight document is written back as it was read
Mut_set_aircraft_id_step_no_id(r, p) ==
    LET Goto(pc) == [redis |-> r, proc |-> [p EXCEPT !.pc = pc]]
        Done(status, detail) ==
            [redis |-> r,
             proc |-> [p EXCEPT !.pc = "done", !.status = status, !.detail = detail]]
    IN
    CASE p.pc = "get_flight" ->
           IF p.flight_id \notin DOMAIN r.flight THEN Done(404, "no_flight")
           ELSE [redis |-> r,
                 proc |-> [p EXCEPT !.pc = "get_mapping", !.data = r.flight[p.flight_id]]]
      [] p.pc = "get_mapping" ->
           IF p.aircraft_id \notin DOMAIN r.aircraft_to_flight THEN Goto("set_flight")
           ELSE [redis |-> r,
                 proc |-> [p EXCEPT !.pc = "get_mapped_flight",
                                    !.mapped = r.aircraft_to_flight[p.aircraft_id]]]
      [] p.pc = "get_mapped_flight" ->
           IF p.mapped \notin DOMAIN r.flight THEN Goto("set_flight")
           ELSE Done(400, "exists")
      [] p.pc = "set_flight" ->
           [redis |-> [r EXCEPT !.flight = Put(@, p.flight_id, p.data)],
            proc |-> [p EXCEPT !.pc = "set_mapping"]]
      [] p.pc = "set_mapping" ->
           [redis |-> [r EXCEPT !.aircraft_to_flight = Put(@, p.aircraft_id, p.flight_id)],
            proc |-> [p EXCEPT !.pc = "done", !.status = 200, !.detail = "ok"]]

\* the next backend operation of request p on backend r: [redis, proc].
\* get_flight is the read of get_by_flight_id (line 131); get_mapping and
\* get_mapped_flight are the two reads of get_by_id (lines 171, 181), whose
\* 404 lets the assignment go on (lines 140-143); set_flight and set_mapping
\* are the two writes (lines 150, 154).
set_aircraft_id_step(r, p) ==
    LET Goto(pc) == [redis |-> r, proc |-> [p EXCEPT !.pc = pc]]
        Done(status, detail) ==
            [redis |-> r,
             proc |-> [p EXCEPT !.pc = "done", !.status = status, !.detail = detail]]
    IN
    CASE p.pc = "get_flight" ->
           IF p.flight_id \notin DOMAIN r.flight THEN Done(404, "no_flight")
           ELSE [redis |-> r,
                 proc |-> [p EXCEPT !.pc = "get_mapping", !.data = r.flight[p.flight_id]]]
      [] p.pc = "get_mapping" ->
           IF p.aircraft_id \notin DOMAIN r.aircraft_to_flight THEN Goto("set_flight")
           ELSE [redis |-> r,
                 proc |-> [p EXCEPT !.pc = "get_mapped_flight",
                                    !.mapped = r.aircraft_to_flight[p.aircraft_id]]]
      [] p.pc = "get_mapped_flight" ->
           IF p.mapped \notin DOMAIN r.flight THEN Goto("set_flight")
           ELSE Done(400, "exists")
      [] p.pc = "set_flight" ->
           LET a == [model_validate_json(p.data) EXCEPT !.id = p.aircraft_id] IN
           [redis |-> [r EXCEPT !.flight = Put(@, p.flight_id, model_dump_json(a))],
            proc |-> [p EXCEPT !.pc = "set_mapping", !.data = model_dump_json(a)]]
      [] p.pc = "set_mapping" ->
           [redis |-> [r EXCEPT !.aircraft_to_flight = Put(@, p.aircraft_id, p.flight_id)],
            proc |-> [p EXCEPT !.pc = "done", !.status = 200, !.detail = "ok"]]

\* mutant: update writes under flight:{aircraft.id} instead of the flight key
Mut_update_wrong_key(r, a) ==
    IF a.id = None THEN Err(r, 400, "no_id")
    ELSE IF a.id \notin DOMAIN r.aircraft_to_flight THEN Err(r, 404, "no_mapping")
    ELSE LET flight_id_str == r.aircraft_to_flight[a.id] IN
         IF flight_id_str \notin DOMAIN r.flight THEN Err(r, 404, "no_flight_data")
         ELSE Ok([r EXCEPT !.flight = Put(@, a.id, model_dump_json(a))], a)

\* mutant: the flight record is written without looking for it first
Mut_update_upsert(r, a) ==
    IF a.id = None THEN Err(r, 400, "no_id")
    ELSE IF a.id \notin DOMAIN r.aircraft_to_flight THEN Err(r, 404, "no_mapping")
    ELSE LET flight_id_str == r.aircraft_to_flight[a.id] IN
         Ok([r EXCEPT !.flight = Put(@, flight_id_str, model_dump_json(a))], a)

update(r, a) ==
    IF a.id = None THEN Err(r, 400, "no_id")
    ELSE IF a.id \notin DOMAIN r.aircraft_to_flight THEN Err(r, 404, "no_mapping")
    ELSE LET flight_id_str == r.aircraft_to_flight[a.id] IN
         IF flight_id_str \notin DOMAIN r.flight THEN Err(r, 404, "no_flight_data")
         ELSE Ok([r EXCEPT !.flight = Put(@, flight_id_str, model_dump_json(a))], a)

\* mutant: delete removes the index entry and forgets the flight record
Mut_delete_mapping_only(r, aircraft_id) ==
    IF aircraft_id \notin DOMAIN r.aircraft_to_flight
    THEN [status |-> 200, detail |-> "ok", ret |-> FALSE, redis |-> r]
    ELSE LET flight_id_str == r.aircraft_to_flight[aircraft_id]
             r2 == [r EXCEPT !.aircraft_to_flight = Drop(@, aircraft_id)]
             r3 == [r2 EXCEPT !.flights_all = @ \ {flight_id_str}]
         IN [status |-> 200, detail |-> "ok", ret |-> TRUE, redis |-> r3]

\* mutant: delete raises 404 when the index has no entry
Mut_delete_missing_raises(r, aircraft_id) ==
    IF aircraft_id \notin DOMAIN r.aircraft_to_flight
    THEN [status |-> 404, detail |-> "no_mapping", ret |-> FALSE, redis |-> r]
    ELSE LET flight_id_str == r.aircraft_to_flight[aircraft_id]
             r1 == [r EXCEPT !.flight = Drop(@, flight_id_str)]
             r2 == [r1 EXCEPT !.aircraft_to_flight = Drop(@, aircraft_id)]
             r3 == [r2 EXCEPT !.flights_all = @ \ {flight_id_str}]
         IN [status |-> 200, detail |-> "ok", ret |-> TRUE, redis |-> r3]

\* mutant: delete leaves the flight in flights:all
Mut_delete_keeps_member(r, aircraft_id) ==
    IF aircraft_id \notin DOMAIN r.aircraft_to_flight
    THEN [status |-> 200, detail |-> "ok", ret |-> FALSE, redis |-> r]
    ELSE LET flight_id_str == r.aircraft_to_flight[aircraft_id]
             r1 == [r EXCEPT !.flight = Drop(@, flight_id_str)]
             r2 == [r1 EXCEPT !.aircraft_to_flight = Drop(@, aircraft_id)]
         IN [status |-> 200, detail |-> "ok", ret |-> TRUE, redis |-> r2]

\* mutant: delete reports success only when the flight record was removed
Mut_delete_record_decides(r, aircraft_id) ==
    IF aircraft_id \notin DOMAIN r.aircraft_to_flight
    THEN [status |-> 200, detail |-> "ok", ret |-> FALSE, redis |-> r]
    ELSE LET flight_id_str == r.aircraft_to_flight[aircraft_id]
             flight_deleted == IF flight_id_str \in DOMAIN r.flight THEN 1 ELSE 0
             r1 == [r EXCEPT !.flight = Drop(@, flight_id_str)]
             r2 == [r1 EXCEPT !.aircraft_to_flight = Drop(@, aircraft_id)]
             r3 == [r2 EXCEPT !.flights_all = @ \ {flight_id_str}]
         IN [status |-> 200, detail |-> "ok", ret |-> (flight_deleted > 0), redis |-> r3]

\* delete: [ret, redis]; the key deletions report how many keys they removed
delete(r, aircraft_id) ==
    IF aircraft_id \notin DOMAIN r.aircraft_to_flight
    THEN [status |-> 200, detail |-> "ok", ret |-> FALSE, redis |-> r]
    ELSE LET flight_id_str == r.aircraft_to_flight[aircraft_id]
             flight_deleted == IF flight_id_str \in DOMAIN r.flight THEN 1 ELSE 0
             r1 == [r EXCEPT !.flight = Drop(@, flight_id_str)]
             mapping_deleted == IF aircraft_id \in DOMAIN r1.aircraft_to_flight THEN 1 ELSE 0
             r2 == [r1 EXCEPT !.aircraft_to_flight = Drop(@, aircraft_id)]
             r3 == [r2 EXCEPT !.flights_all = @ \ {flight_id_str}]
         IN [status |-> 200, detail |-> "ok",
             ret |-> (flight_deleted > 0 \/ mapping_deleted > 0), redis |-> r3]

\* the template of the five update_* methods: load by id, apply the setter,
\* persist with update; a ValueError of the setter becomes status 400
update_passengers(r, aircraft_id, count) ==
    LET current == get_by_id(r, aircraft_id) IN
    IF current.status # 200 THEN current
    ELSE LET m == Instance_update_passengers(current.aircraft, count) IN
         IF ~m.ok THEN Err(r, 400, "capacity") ELSE update(r, m.aircraft)

update_baggage(r, aircraft_id, weight) ==
    LET current == get_by_id(r, aircraft_id) IN
    IF current.status # 200 THEN current
    ELSE LET m == Instance_update_baggage(current.aircraft, weight) IN
         IF ~m.ok THEN Err(r, 400, "capacity") ELSE update(r, m.aircraft)

update_water(r, aircraft_id, weight) ==
    LET current == get_by_id(r, aircraft_id) IN
    IF current.status # 200 THEN current
    ELSE LET m == Instance_update_water(current.aircraft, weight) IN
         IF ~m.ok THEN Err(r, 400, "capacity") ELSE update(r, m.aircraft)

update_fuel(r, aircraft_id, weight) ==
    LET current == get_by_id(r, aircraft_id) IN
    IF current.status # 200 THEN current
    ELSE LET m == Instance_update_fuel(current.aircraft, weight) IN
         IF ~m.ok THEN Err(r, 400, "capacity") ELSE update(r, m.aircraft)

update_node_id(r, aircraft_id, node_id) ==
    LET current == get_by_id(r, aircraft_id) IN
    IF current.status # 200 THEN current
    ELSE update(r, Instance_update_node_id(current.aircraft, node_id).aircraft)

\* generate_random: the set of results the random draws allow.  The model is
\* the one given, or any configured one when omitted; each current value is
\* random.randint(0, capacity).  The ValueError cases answer 400 at the router.
generate_random(r, cfg, flight_id, model) ==
    LET available_models == DOMAIN cfg IN
    IF model = None /\ available_models = {} THEN {Err(r, 400, "no_models")}
    ELSE IF model # None /\ model \notin available_models THEN {Err(r, 400, "bad_model")}
    ELSE LET chosen == IF model = None THEN available_models ELSE {model} IN
         UNION {
           LET config_data == cfg[m] IN
           { LET a == AircraftInstance(m, flight_id, config_data, p, b, w, fu)
                 r1 == [r EXCEPT !.flight = Put(@, flight_id, model_dump_json(a))]
                 r2 == [r1 EXCEPT !.flights_all = @ \cup {flight_id}]
             IN Ok(r2, a)
             : <<p, b, w, fu>> \in (0..config_data.passenger_capacity)
                                   \X (0..config_data.baggage_capacity_kg)
                                   \X (0..config_data.water_capacity)
                                   \X (0..config_data.fuel_capacity) }
           : m \in chosen }

\* ------------------------------------------------------------------------
\* update_passengers / update_fuel and delete, one backend operation at a
\* time.  A request keeps what it read in its locals: the flight id the index
\* gave (mapped), the instance it loaded and changed (data), the key counts
\* of delete.  Every awaited backend call is one step; what lies between two
\* awaits (the setter, the id check of update) belongs to the step before.
\* ------------------------------------------------------------------------
Setter(op, a, v) ==
    IF op = "update_passengers" THEN Instance_update_passengers(a, v)
    ELSE Instance_update_fuel(a, v)

\* a request entering update_passengers or update_fuel (op) with a value
update_begin(op, aircraft_id, v) ==
    [pc |-> "get_mapping", op |-> op, aircraft_id |-> aircraft_id, value |-> v,
     data |-> NoData, mapped |-> None, flight_deleted |-> 0, mapping_deleted |-> 0,
     status |-> 0, detail |-> "running", ret |-> FALSE]

\* a request entering delete
delete_begin(aircraft_id) ==
    [pc |-> "del_get_mapping", op |-> "delete", aircraft_id |-> aircraft_id, value |-> 0,
     data |-> NoData, mapped |-> None, flight_deleted |-> 0, mapping_deleted |-> 0,
     status |-> 0, detail |-> "running", ret |-> FALSE]

\* update_passengers / update_fuel: get_by_id (two reads), the setter, then
\* update (two reads and the write of the whole record)
update_step(r, p) ==
    LET Done(status, detail) ==
            [redis |-> r,
             proc |-> [p EXCEPT !.pc = "done", !.status = status, !.detail = detail]]
    IN
    CASE p.pc = "get_mapping" ->
           IF p.aircraft_id \notin DOMAIN r.aircraft_to_flight THEN Done(404, "no_mapping")
           ELSE [redis |-> r,
                 proc |-> [p EXCEPT !.pc = "get_flight",
                                    !.mapped = r.aircraft_to_flight[p.aircraft_id]]]
      [] p.pc = "get_flight" ->
           IF p.mapped \notin DOMAIN r.flight THEN Done(404, "no_flight_data")
           ELSE LET m == Setter(p.op, model_validate_json(r.flight[p.mapped]), p.value) IN
                IF ~m.ok THEN Done(400, "capacity")
                ELSE IF m.aircraft.id = None THEN Done(400, "no_id")
                ELSE [redis |-> r,
                      proc |-> [p EXCEPT !.pc = "save_get_mapping",
                                         !.data = model_dump_json(m.aircraft)]]
      [] p.pc = "save_get_mapping" ->
           LET id == model_validate_json(p.data).id IN
           IF id \notin DOMAIN r.aircraft_to_flight THEN Done(404, "no_mapping")
           ELSE [redis |-> r,
                 proc |-> [p EXCEPT !.pc = "save_get_flight",
                                    !.mapped = r.aircraft_to_flight[id]]]
      [] p.pc = "save_get_flight" ->
           IF p.mapped \notin DOMAIN r.flight THEN Done(404, "no_flight_data")
           ELSE [redis |-> r, proc |-> [p EXCEPT !.pc = "save_set"]]
      [] p.pc = "save_set" ->
           [redis |-> [r EXCEPT !.flight = Put(@, p.mapped, p.data)],
            proc |-> [p EXCEPT !.pc = "done", !.status = 200, !.detail = "ok"]]

\* delete: the index read, the two key deletions and the set removal
delete_step(r, p) ==
    CASE p.pc = "del_get_mapping" ->
           IF p.aircraft_id \notin DOMAIN r.aircraft_to_flight
           THEN [redis |-> r,
                 proc |-> [p EXCEPT !.pc = "done", !.status = 200, !.detail = "ok",
                                    !.ret = FALSE]]
           ELSE [redis |-> r,
                 proc |-> [p EXCEPT !.pc = "del_flight",
                                    !.mapped = r.aircraft_to_flight[p.aircraft_id]]]
      [] p.pc = "del_flight" ->
           [redis |-> [r EXCEPT !.flight = Drop(@, p.mapped)],
            proc |-> [p EXCEPT !.pc = "del_mapping",
                               !.flight_deleted = IF p.mapped \in DOMAIN r.flight THEN 1 ELSE 0]]
      [] p.pc = "del_mapping" ->
           [redis |-> [r EXCEPT !.aircraft_to_flight = Drop(@, p.aircraft_id)],
            proc |-> [p EXCEPT !.pc = "del_srem",
                               !.mapping_deleted =
                                   IF p.aircraft_id \in DOMAIN r.aircraft_to_flight THEN 1 ELSE 0]]
      [] p.pc = "del_srem" ->
           [redis |-> [r EXCEPT !.flights_all = @ \ {p.mapped}],
            proc |-> [p EXCEPT !.pc = "done", !.status = 200, !.detail = "ok",
                               !.ret = (p.flight_deleted > 0 \/ p.mapping_deleted > 0)]]

\* ------------------------------------------------------------------------
\* Gateways as the landing handler sees them: the answer of Ground-Control's
\* register_vehicle (raised, or a body whose two fields may be missing) and
\* whether the Orchestrator's report_landing raised.
\* ------------------------------------------------------------------------
GCResponses ==
    {[ok |-> FALSE, vehicleId |-> None, garrageNodeId |-> None]} \cup
    {[ok |-> TRUE, vehicleId |-> v, garrageNodeId |-> n] :
        v \in Ids \cup {None}, n \in NodeIds \cup {None}}

RegisterCall == [call |-> "register_vehicle", aircraft_id |-> None, landing_point |-> None]
ReportCall(aircraft_id, node_id) ==
    [call |-> "report_landing", aircraft_id |-> aircraft_id, landing_point |-> node_id]

\* variant: Ground-Control is called before the flight record is resolved
Mut_landing_aircraft_register_first(r, flight_id, gc, orch_ok) ==
    LET got == get_by_flight_id(r, flight_id)
        Answer(status, detail, ret, rr, out) ==
            [status |-> status, detail |-> detail, ret |-> ret, redis |-> rr, outbox |-> out]
    IN
    IF got.status # 200 THEN Answer(404, got.detail, None, r, <<RegisterCall>>)
    ELSE IF ~gc.ok THEN Answer(500, "gc_error", None, r, <<RegisterCall>>)
    ELSE LET aircraft_id == gc.vehicleId
             node_id == gc.garrageNodeId
         IN
         IF aircraft_id = None \/ node_id = None
         THEN Answer(500, "incomplete", None, r, <<RegisterCall>>)
         ELSE LET s == set_aircraft_id(r, flight_id, aircraft_id) IN
              IF s.status # 200 THEN Answer(500, s.detail, None, s.redis, <<RegisterCall>>)
              ELSE LET a == Instance_update_node_id(s.aircraft, node_id).aircraft
                       u == update(s.redis, a)
                   IN
                   IF u.status # 200 THEN Answer(500, u.detail, None, u.redis, <<RegisterCall>>)
                   ELSE LET out == <<RegisterCall, ReportCall(a.id, node_id)>> IN
                        IF ~orch_ok THEN Answer(500, "orch_error", None, u.redis, out)
                        ELSE Answer(200, "ok", a.id, u.redis, out)

\* variant: a failed landing report restores the backend of before the call
Mut_landing_aircraft_rollback(r, flight_id, gc, orch_ok) ==
    LET got == get_by_flight_id(r, flight_id)
        Answer(status, detail, ret, rr, out) ==
            [status |-> status, detail |-> detail, ret |-> ret, redis |-> rr, outbox |-> out]
    IN
    IF got.status # 200 THEN Answer(404, got.detail, None, r, <<>>)
    ELSE IF ~gc.ok THEN Answer(500, "gc_error", None, r, <<RegisterCall>>)
    ELSE LET aircraft_id == gc.vehicleId
             node_id == gc.garrageNodeId
         IN
         IF aircraft_id = None \/ node_id = None
         THEN Answer(500, "incomplete", None, r, <<RegisterCall>>)
         ELSE LET s == set_aircraft_id(r, flight_id, aircraft_id) IN
              IF s.status # 200 THEN Answer(500, s.detail, None, s.redis, <<RegisterCall>>)
              ELSE LET a == Instance_update_node_id(s.aircraft, node_id).aircraft
                       u == update(s.redis, a)
                   IN
                   IF u.status # 200 THEN Answer(500, u.detail, None, u.redis, <<RegisterCall>>)
                   ELSE LET out == <<RegisterCall, ReportCall(a.id, node_id)>> IN
                        IF ~orch_ok THEN Answer(500, "orch_error", None, r, out)
                        ELSE Answer(200, "ok", a.id, u.redis, out)

\* variant: the landing report goes out before the node id is persisted
Mut_landing_aircraft_report_first(r, flight_id, gc, orch_ok) ==
    LET got == get_by_flight_id(r, flight_id)
        Answer(status, detail, ret, rr, out) ==
            [status |-> status, detail |-> detail, ret |-> ret, redis |-> rr, outbox |-> out]
    IN
    IF got.status # 200 THEN Answer(404, got.detail, None, r, <<>>)
    ELSE IF ~gc.ok THEN Answer(500, "gc_error", None, r, <<RegisterCall>>)
    ELSE LET aircraft_id == gc.vehicleId
             node_id == gc.garrageNodeId
         IN
         IF aircraft_id = None \/ node_id = None
         THEN Answer(500, "incomplete", None, r, <<RegisterCall>>)
         ELSE LET s == set_aircraft_id(r, flight_id, aircraft_id) IN
              IF s.status # 200 THEN Answer(500, s.detail, None, s.redis, <<RegisterCall>>)
              ELSE LET a == Instance_update_node_id(s.aircraft, node_id).aircraft
                       out == <<RegisterCall, ReportCall(a.id, node_id)>>
                   IN
                   IF ~orch_ok THEN Answer(500, "orch_error", None, s.redis, out)
                   ELSE LET u == update(s.redis, a) IN
                        IF u.status # 200 THEN Answer(500, u.detail, None, u.redis, out)
                        ELSE Answer(200, "ok", a.id, u.redis, out)

\* variant: a failed registration discards the flight record
Mut_landing_aircraft_discard_unregistered(r, flight_id, gc, orch_ok) ==
    LET got == get_by_flight_id(r, flight_id)
        Answer(status, detail, ret, rr, out) ==
            [status |-> status, detail |-> detail, ret |-> ret, redis |-> rr, outbox |-> out]
    IN
    IF got.status # 200 THEN Answer(404, got.detail, None, r, <<>>)
    ELSE IF ~gc.ok
         THEN Answer(500, "gc_error", None,
                     [r EXCEPT !.flight = Drop(@, flight_id), !.flights_all = @ \ {flight_id}],
                     <<RegisterCall>>)
    ELSE LET aircraft_id == gc.vehicleId
             node_id == gc.garrageNodeId
         IN
         IF aircraft_id = None \/ node_id = None
         THEN Answer(500, "incomplete", None, r, <<RegisterCall>>)
         ELSE LET s == set_aircraft_id(r, flight_id, aircraft_id) IN
              IF s.status # 200 THEN Answer(500, s.detail, None, s.redis, <<RegisterCall>>)
              ELSE LET a == Instance_update_node_id(s.aircraft, node_id).aircraft
                       u == update(s.redis, a)
                   IN
                   IF u.status # 200 THEN Answer(500, u.detail, None, u.redis, <<RegisterCall>>)
                   ELSE LET out == <<RegisterCall, ReportCall(a.id, node_id)>> IN
                        IF ~orch_ok THEN Answer(500, "orch_error", None, u.redis, out)
                        ELSE Answer(200, "ok", a.id, u.redis, out)

\* landing_aircraft (routers/aircraft.py): every exception raised inside the
\* try block, HTTPException included, is answered with status 500
landing_aircraft(r, flight_id, gc, orch_ok) ==
    LET got == get_by_flight_id(r, flight_id)
        Answer(status, detail, ret, rr, out) ==
            [status |-> status, detail |-> detail, ret |-> ret, redis |-> rr, outbox |-> out]
    IN
    IF got.status # 200 THEN Answer(404, got.detail, None, r, <<>>)
    ELSE IF ~gc.ok THEN Answer(500, "gc_error", None, r, <<RegisterCall>>)
    ELSE LET aircraft_id == gc.vehicleId
             node_id == gc.garrageNodeId
         IN
         IF aircraft_id = None \/ node_id = None
         THEN Answer(500, "incomplete", None, r, <<RegisterCall>>)
         ELSE LET s == set_aircraft_id(r, flight_id, aircraft_id) IN
              IF s.status # 200 THEN Answer(500, s.detail, None, s.redis, <<RegisterCall>>)
              ELSE LET a == Instance_update_node_id(s.aircraft, node_id).aircraft
                       u == update(s.redis, a)
                   IN
                   IF u.status # 200 THEN Answer(500, u.detail, None, u.redis, <<RegisterCall>>)
                   ELSE LET out == <<RegisterCall, ReportCall(a.id, node_id)>> IN
                        IF ~orch_ok THEN Answer(500, "orch_error", None, u.redis, out)
                        ELSE Answer(200, "ok", a.id, u.redis, out)

\* takeoff_aircraft (routers/aircraft.py): the boolean delete returns is not
\* looked at; only an exception of delete changes the answer
takeoff_aircraft(r, aircraft_id) ==
    LET d == delete(r, aircraft_id) IN
    IF d.status # 200
    THEN [status |-> d.status, detail |-> d.detail, ret |-> None, redis |-> d.redis]
    ELSE [status |-> 200, detail |-> "ok", ret |-> None, redis |-> d.redis]

\* ------------------------------------------------------------------------
\* BaseGateway._make_request (gateways/base.py): the retry loop of one call.
\* gw holds the gateway's settings, the loop's locals (retries, current_delay)
\* and position (pc), and what the call did so far: the outcome of every
\* HTTP attempt and the delay of every sleep, in order.
\* ------------------------------------------------------------------------
\* what one HTTP attempt can end in: a response (status, content type, body)
\* or an exception of the client (kind says which).  The body "json" is a
\* well-formed JSON document, "" is no content, any other body is not JSON.
Response(status, body) ==
    [kind |-> "response", status |-> status, ctype |-> "application/json", body |-> body]
TextResponse(status, body) ==
    [kind |-> "response", status |-> status, ctype |-> "text/plain", body |-> body]
Failure(kind) == [kind |-> kind, status |-> 0, ctype |-> "", body |-> ""]
NoOutcome == [kind |-> "none", status |-> 0, ctype |-> "", body |-> ""]

Outcomes ==
    {Response(200, "json"), Response(204, ""), Response(200, "text"),
     TextResponse(200, "text"), Response(404, "err"),
     Response(429, "err"), Response(503, "err"),
     Failure("ClientError"), Failure("TimeoutError")}

\* line 138: the statuses taken as success
Success2xx(o) == o.kind = "response" /\ 200 <= o.status /\ o.status < 300

\* response.json() (aiohttp) on a response whose content was read: it refuses
\* a content type other than application/json with ContentTypeError, a
\* ClientError, before decoding; an undecodable document is json's
\* JSONDecodeError
response_json(o) ==
    IF o.ctype # "application/json" THEN "ContentTypeError"
    ELSE IF o.body = "json" THEN "parsed"
    ELSE "JSONDecodeError"

\* gateway settings explored; max_retries = 0 means no cap
RetryCaps == {0, 1, 2}
GatewayConfigs ==
    [max_retries : RetryCaps, retry_delay : {0, 1, 3},
     retry_multiplier : {1, 2}, max_retry_delay : {2, 4}]

\* the defaults of BaseGateway.__init__
BaseGatewayDefaults ==
    [max_retries |-> 5, retry_delay |-> 1, retry_multiplier |-> 2, max_retry_delay |-> 60]

Min(a, b) == IF a <= b THEN a ELSE b

\* lines 116-117: the locals before the loop
make_request_begin(cfg) ==
    [pc |-> "request",
     max_retries |-> cfg.max_retries, retry_delay |-> cfg.retry_delay,
     retry_multiplier |-> cfg.retry_multiplier, max_retry_delay |-> cfg.max_retry_delay,
     retries |-> 0, current_delay |-> cfg.retry_delay,
     attempts |-> <<>>, sleeps |-> <<>>,
     returned |-> None, raised |-> NoOutcome]

\* no call in progress
NoCall == [make_request_begin(BaseGatewayDefaults) EXCEPT !.pc = "idle"]

\* line 119: the loop condition
LoopCondition(g) == g.max_retries = 0 \/ g.retries <= g.max_retries

\* variant: the cap is reached one failure early
Mut_make_request_attempt_early_cap(g, o) ==
    LET tried == [g EXCEPT !.attempts = Append(@, o)] IN
    IF /\ o.kind = "response" /\ 200 <= o.status /\ o.status < 300
       /\ (o.body = "" \/ response_json(o) # "ContentTypeError")
    THEN [tried EXCEPT !.pc = "returned",
                       !.returned = IF o.body = "" THEN None ELSE o.body]
    ELSE LET retries == g.retries + 1 IN
         IF g.max_retries > 0 /\ retries >= g.max_retries
         THEN [tried EXCEPT !.pc = "raised", !.retries = retries, !.raised = o]
         ELSE [tried EXCEPT !.pc = "sleep", !.retries = retries]

\* lines 120-182: one pass of the try block with outcome o.  A 2xx response
\* returns None when it has no content (line 142), the parsed document (line
\* 148), or the text when json.JSONDecodeError is caught (lines 149-153).
\* Everything else is an exception raised inside the try: the client's own
\* (ClientError, TimeoutError, and the ContentTypeError of response.json(),
\* which line 149 does not catch), the Exception of line 169 for a 4xx other
\* than 429, and the Exception of line 172 for the remaining statuses.  All of them are caught at line 174, which
\* counts the retry and re-raises only when a cap is set and exceeded.
make_request_attempt(g, o) ==
    LET tried == [g EXCEPT !.attempts = Append(@, o)] IN
    IF /\ o.kind = "response" /\ 200 <= o.status /\ o.status < 300
       /\ (o.body = "" \/ response_json(o) # "ContentTypeError")
    THEN [tried EXCEPT !.pc = "returned",
                       !.returned = IF o.body = "" THEN None ELSE o.body]
    ELSE LET retries == g.retries + 1 IN
         IF g.max_retries > 0 /\ retries > g.max_retries
         THEN [tried EXCEPT !.pc = "raised", !.retries = retries, !.raised = o]
         ELSE [tried EXCEPT !.pc = "sleep", !.retries = retries]

\* variant: the delay is scaled without the maximum
Mut_make_request_sleep_uncapped(g) ==
    [g EXCEPT !.pc = "request",
              !.sleeps = Append(@, g.current_delay),
              !.current_delay = g.current_delay * g.retry_multiplier]

\* lines 185-188: sleep for the current delay, then scale it up to the maximum
make_request_sleep(g) ==
    [g EXCEPT !.pc = "request",
              !.sleeps = Append(@, g.current_delay),
              !.current_delay = Min(g.current_delay * g.retry_multiplier, g.max_retry_delay)]

\* ------------------------------------------------------------------------
\* Requests: one action per operation, run to completion
\* ------------------------------------------------------------------------
Respond(op, res, ret) ==
    /\ redis' = res.redis
    /\ last' = [op |-> op, status |-> res.status, detail |-> res.detail, ret |-> ret]
    /\ outbox' = <<>>
    /\ UNCHANGED <<aircraft, gw, proc>>

GenerateRandom(flight_id, model) ==
    \E res \in generate_random(redis, aircraft, flight_id, model) :
        Respond("generate_random", res, None)

SetAircraftId(flight_id, aircraft_id) ==
    Respond("set_aircraft_id", set_aircraft_id(redis, flight_id, aircraft_id), None)

UpdatePassengers(aircraft_id, count) ==
    Respond("update_passengers", update_passengers(redis, aircraft_id, count), None)

UpdateBaggage(aircraft_id, weight) ==
    Respond("update_baggage", update_baggage(redis, aircraft_id, weight), None)

UpdateWater(aircraft_id, weight) ==
    Respond("update_water", update_water(redis, aircraft_id, weight), None)

UpdateFuel(aircraft_id, weight) ==
    Respond("update_fuel", update_fuel(redis, aircraft_id, weight), None)

UpdateNodeId(aircraft_id, node_id) ==
    Respond("update_node_id", update_node_id(redis, aircraft_id, node_id), None)

Delete(aircraft_id) ==
    LET res == delete(redis, aircraft_id) IN
    Respond("delete", res, IF res.ret THEN "True" ELSE "False")

\* update called with an instance read earlier: a stored record, under the id
\* it carries or under an id the backend no longer resolves
SaveArgs(r) ==
    UNION {
        LET a == model_validate_json(r.flight[f]) IN
        {[a EXCEPT !.id = i] :
            i \in {j \in Ids \cup {None} :
                      \/ j = a.id
                      \/ j \notin DOMAIN r.aircraft_to_flight
                      \/ r.aircraft_to_flight[j] \notin DOMAIN r.flight}}
        : f \in DOMAIN r.flight }

Update(a) ==
    Respond("update", update(redis, a), None)

Takeoff(aircraft_id) ==
    Respond("takeoff", takeoff_aircraft(redis, aircraft_id), None)

Landing(flight_id, gc, orch_ok) ==
    LET res == landing_aircraft(redis, flight_id, gc, orch_ok) IN
    /\ redis' = res.redis
    /\ last' = [op |-> "landing", status |-> res.status, detail |-> res.detail, ret |-> res.ret]
    /\ outbox' = res.outbox
    /\ UNCHANGED <<aircraft, gw, proc>>

\* ------------------------------------------------------------------------
\* Gateway call: one action per step of the retry loop
\* ------------------------------------------------------------------------
MakeRequestAttempt(o) ==
    /\ gw.pc = "request"
    /\ LoopCondition(gw)
    /\ Len(gw.attempts) < MaxAttempts
    /\ gw' = make_request_attempt(gw, o)
    /\ UNCHANGED <<aircraft, redis, last, outbox, proc>>

MakeRequestSleep ==
    /\ gw.pc = "sleep"
    /\ Len(gw.sleeps) < MaxAttempts
    /\ gw' = make_request_sleep(gw)
    /\ UNCHANGED <<aircraft, redis, last, outbox, proc>>

\* the same two steps once MaxAttempts attempts (sleeps) are on record: the
\* loop goes on, the history no longer grows (its last entry is the latest
\* attempt) and the counter is no longer advanced.  Only a call without cap
\* gets this far, and with max_retries = 0 the loop never reads retries
\* (lines 119, 177).
MakeRequestAttemptUntracked(o) ==
    /\ gw.pc = "request"
    /\ LoopCondition(gw)
    /\ gw.max_retries = 0
    /\ Len(gw.attempts) >= MaxAttempts
    /\ gw' = [make_request_attempt(gw, o) EXCEPT
                 !.attempts = [gw.attempts EXCEPT ![Len(gw.attempts)] = o],
                 !.retries = gw.retries]
    /\ UNCHANGED <<aircraft, redis, last, outbox, proc>>

MakeRequestSleepUntracked ==
    /\ gw.pc = "sleep"
    /\ gw.max_retries = 0
    /\ Len(gw.sleeps) >= MaxAttempts
    /\ gw' = [make_request_sleep(gw) EXCEPT !.sleeps = gw.sleeps]
    /\ UNCHANGED <<aircraft, redis, last, outbox, proc>>

\* an attempt the service answers with a 2xx status
Answered2xx ==
    \E o \in Outcomes :
        /\ Success2xx(o)
        /\ (MakeRequestAttempt(o) \/ MakeRequestAttemptUntracked(o))

\* ------------------------------------------------------------------------
\* Interleaved requests: one action per backend operation of set_aircraft_id
\* ------------------------------------------------------------------------
Run(q) ==
    LET s == set_aircraft_id_step(redis, proc[q]) IN
    /\ redis' = s.redis
    /\ proc' = [proc EXCEPT ![q] = s.proc]
    /\ UNCHANGED <<aircraft, last, outbox, gw>>

GetFlight(q) ==
    /\ proc[q].pc = "get_flight"
    /\ Run(q)

GetMapping(q) ==
    /\ proc[q].pc = "get_mapping"
    /\ Run(q)

GetMappedFlight(q) ==
    /\ proc[q].pc = "get_mapped_flight"
    /\ Run(q)

SetFlight(q) ==
    /\ proc[q].pc = "set_flight"
    /\ Run(q)

SetMapping(q) ==
    /\ proc[q].pc = "set_mapping"
    /\ Run(q)

\* ------------------------------------------------------------------------
\* Interleaved requests: one action per backend operation of
\* update_passengers / update_fuel and of delete
\* ------------------------------------------------------------------------
RunUpdate(q) ==
    LET s == update_step(redis, proc[q]) IN
    /\ redis' = s.redis
    /\ proc' = [proc EXCEPT ![q] = s.proc]
    /\ UNCHANGED <<aircraft, last, outbox, gw>>

RunDelete(q) ==
    LET s == delete_step(redis, proc[q]) IN
    /\ redis' = s.redis
    /\ proc' = [proc EXCEPT ![q] = s.proc]
    /\ UNCHANGED <<aircraft, last, outbox, gw>>

UpdateGetMapping(q) ==
    /\ proc[q].pc = "get_mapping"
    /\ RunUpdate(q)

UpdateGetFlight(q) ==
    /\ proc[q].pc = "get_flight"
    /\ RunUpdate(q)

SaveGetMapping(q) ==
    /\ proc[q].pc = "save_get_mapping"
    /\ RunUpdate(q)

SaveGetFlight(q) ==
    /\ proc[q].pc = "save_get_flight"
    /\ RunUpdate(q)

SaveSet(q) ==
    /\ proc[q].pc = "save_set"
    /\ RunUpdate(q)

DeleteGetMapping(q) ==
    /\ proc[q].pc = "del_get_mapping"
    /\ RunDelete(q)

DeleteFlight(q) ==
    /\ proc[q].pc = "del_flight"
    /\ RunDelete(q)

DeleteMapping(q) ==
    /\ proc[q].pc = "del_mapping"
    /\ RunDelete(q)

DeleteSrem(q) ==
    /\ proc[q].pc = "del_srem"
    /\ RunDelete(q)

\* ------------------------------------------------------------------------
\* Specifications
\* ------------------------------------------------------------------------
NoRequest == [op |-> "none", status |-> 200, detail |-> "ok", ret |-> None]

\* request values: from MaxNeg below zero (neg = TRUE) to MaxOver above the
\* largest configured capacity
Values(neg) == (IF neg THEN 0 - MaxNeg ELSE 0)..(MaxCapacity(aircraft) + MaxOver)

\* identity specification: two flights, two ids, small capacities, request
\* values from 0 to above the largest capacity
Init ==
    /\ aircraft = SmallConfig
    /\ redis = EmptyRedis
    /\ last = NoRequest
    /\ outbox = <<>>
    /\ gw = NoCall
    /\ proc = NoRequests

Next ==
    \/ \E f \in Flights, m \in ModelArgs : GenerateRandom(f, m)
    \/ \E f \in Flights, i \in Ids : SetAircraftId(f, i)
    \/ \E i \in Ids, v \in Values(FALSE) : UpdatePassengers(i, v)
    \/ \E i \in Ids, v \in Values(FALSE) : UpdateBaggage(i, v)
    \/ \E i \in Ids, v \in Values(FALSE) : UpdateWater(i, v)
    \/ \E i \in Ids, v \in Values(FALSE) : UpdateFuel(i, v)
    \/ \E i \in Ids, n \in NodeIds : UpdateNodeId(i, n)
    \/ \E i \in Ids : Delete(i)
    \/ \E i \in Ids : Takeoff(i)
    \/ \E a \in SaveArgs(redis) : Update(a)
    \/ \E f \in Flights, gc \in GCResponses, o \in BOOLEAN : Landing(f, gc, o)

Spec == Init /\ [][Next]_vars

\* ledger specification: one flight, larger capacities, request values from
\* below 0 to above the largest capacity
InitLedger ==
    /\ aircraft = LedgerConfig
    /\ redis = EmptyRedis
    /\ last = NoRequest
    /\ outbox = <<>>
    /\ gw = NoCall
    /\ proc = NoRequests

NextLedger ==
    \/ \E f \in LedgerFlights, m \in ModelArgs : GenerateRandom(f, m)
    \/ \E f \in LedgerFlights, i \in Ids : SetAircraftId(f, i)
    \/ \E i \in Ids, v \in Values(TRUE) : UpdatePassengers(i, v)
    \/ \E i \in Ids, v \in Values(TRUE) : UpdateBaggage(i, v)
    \/ \E i \in Ids, v \in Values(TRUE) : UpdateWater(i, v)
    \/ \E i \in Ids, v \in Values(TRUE) : UpdateFuel(i, v)
    \/ \E i \in Ids, n \in NodeIds : UpdateNodeId(i, n)
    \/ \E i \in Ids : Delete(i)
    \/ \E i \in Ids : Takeoff(i)
    \/ \E a \in SaveArgs(redis) : Update(a)
    \/ \E f \in LedgerFlights, gc \in GCResponses, o \in BOOLEAN : Landing(f, gc, o)

SpecLedger == InitLedger /\ [][NextLedger]_vars

\* gateway specification: one call of _make_request under every setting of
\* GatewayConfigs, every attempt ending in any of Outcomes; the store is idle
InitGateway ==
    /\ aircraft = SmallConfig
    /\ redis = EmptyRedis
    /\ last = NoRequest
    /\ outbox = <<>>
    /\ gw \in {make_request_begin(cfg) : cfg \in GatewayConfigs}
    /\ proc = NoRequests

NextGateway ==
    \/ \E o \in Outcomes : MakeRequestAttempt(o)
    \/ MakeRequestSleep

SpecGateway == InitGateway /\ [][NextGateway]_vars

\* fair gateway specification: the same call followed without end.  A sleep
\* that has started ends (asyncio.sleep returns), and a service that can
\* answer with a 2xx status again and again eventually does.
NextGatewayFair ==
    \/ \E o \in Outcomes : MakeRequestAttempt(o)
    \/ MakeRequestSleep
    \/ \E o \in Outcomes : MakeRequestAttemptUntracked(o)
    \/ MakeRequestSleepUntracked

SpecGatewayFair ==
    /\ InitGateway
    /\ [][NextGatewayFair]_vars
    /\ WF_vars(MakeRequestSleep \/ MakeRequestSleepUntracked)
    /\ SF_vars(Answered2xx)

\* interleaving specification: two set_aircraft_id requests, for any flights
\* and ids, run their backend operations in any order against a backend that
\* holds the record of FL100 and may hold that of FL200, none identified yet.
\* A request may stop at any point (a crash).
InterleaveStores ==
    LET first == {res.redis : res \in generate_random(EmptyRedis, SmallConfig, "FL100", None)}
    IN first \cup UNION {{res.redis : res \in generate_random(r, SmallConfig, "FL200", None)}
                           : r \in first}

InitInterleave ==
    /\ aircraft = SmallConfig
    /\ redis \in InterleaveStores
    /\ last = NoRequest
    /\ outbox = <<>>
    /\ gw = NoCall
    /\ proc \in [Requests -> {set_aircraft_id_begin(f, i) : f \in Flights, i \in Ids}]

NextInterleave ==
    \/ \E q \in Requests : GetFlight(q)
    \/ \E q \in Requests : GetMapping(q)
    \/ \E q \in Requests : GetMappedFlight(q)
    \/ \E q \in Requests : SetFlight(q)
    \/ \E q \in Requests : SetMapping(q)

SpecInterleave == InitInterleave /\ [][NextInterleave]_vars

\* concurrent specification: two requests, each an update_passengers, an
\* update_fuel or a delete for any id and value, run their backend operations
\* in any order against a backend that holds the record of FL100, generated
\* under LedgerConfig and identified as AC1.  No id is assigned to AC2.
UpdateValues == 0..(MaxCapacity(LedgerConfig))

ConcurrentStores ==
    {set_aircraft_id(res.redis, "FL100", "AC1").redis :
        res \in generate_random(EmptyRedis, LedgerConfig, "FL100", None)}

ConcurrentRequests ==
    {update_begin(op, i, v) :
        op \in {"update_passengers", "update_fuel"}, i \in Ids, v \in UpdateValues}
    \cup {delete_begin(i) : i \in Ids}

InitConcurrent ==
    /\ aircraft = LedgerConfig
    /\ redis \in ConcurrentStores
    /\ last = NoRequest
    /\ outbox = <<>>
    /\ gw = NoCall
    /\ proc \in [Requests -> ConcurrentRequests]

NextConcurrent ==
    \/ \E q \in Requests : UpdateGetMapping(q)
    \/ \E q \in Requests : UpdateGetFlight(q)
    \/ \E q \in Requests : SaveGetMapping(q)
    \/ \E q \in Requests : SaveGetFlight(q)
    \/ \E q \in Requests : SaveSet(q)
    \/ \E q \in Requests : DeleteGetMapping(q)
    \/ \E q \in Requests : DeleteFlight(q)
    \/ \E q \in Requests : DeleteMapping(q)
    \/ \E q \in Requests : DeleteSrem(q)

SpecConcurrent == InitConcurrent /\ [][NextConcurrent]_vars

\* ------------------------------------------------------------------------
\* Properties
\* ------------------------------------------------------------------------
Stored(r, flight_id) == model_validate_json(r.flight[flight_id])

WithinCapacity(a) ==
    /\ 0 <= a.actual_passengers /\ a.actual_passengers <= a.passenger_capacity
    /\ 0 <= a.actual_baggage_kg /\ a.actual_baggage_kg <= a.baggage_capacity_kg
    /\ 0 <= a.actual_water_kg /\ a.actual_water_kg <= a.water_capacity
    /\ 0 <= a.actual_fuel_kg /\ a.actual_fuel_kg <= a.fuel_capacity

\* C1: every stored flight record has 0 <= current <= capacity for passengers,
\* baggage, water and fuel, whatever integer arguments the requests carried.
C1_ResourcesWithinCapacity ==
    \A f \in DOMAIN redis.flight : WithinCapacity(Stored(redis, f))

Rejected(res) ==
    /\ res.status = 400
    /\ res.detail = "capacity"
    /\ res.redis = redis

\* C2: an update of passengers, baggage, water or fuel through an id that
\* resolves to a record, with a value above that resource's capacity, is
\* answered 400 (capacity violation) and leaves the whole backend as it was.
C2_OverCapacityRejectedNoWrite ==
    \A i \in Ids :
        LET cur == get_by_id(redis, i) IN
        cur.status = 200 =>
            \A v \in Values(TRUE) :
                /\ v > cur.aircraft.passenger_capacity
                       => Rejected(update_passengers(redis, i, v))
                /\ v > cur.aircraft.baggage_capacity_kg
                       => Rejected(update_baggage(redis, i, v))
                /\ v > cur.aircraft.water_capacity
                       => Rejected(update_water(redis, i, v))
                /\ v > cur.aircraft.fuel_capacity
                       => Rejected(update_fuel(redis, i, v))

C2_Witness ==
    /\ last.op = "update_fuel"
    /\ last.status = 400
    /\ last.detail = "capacity"
    /\ \E i \in Ids : get_by_id(redis, i).status = 200

\* the record an id resolves to carries an id: set_aircraft_id ran for the
\* flight and generate_random has not replaced the record since
Identified(r, i) ==
    /\ get_by_id(r, i).status = 200
    /\ get_by_id(r, i).aircraft.id # None

\* C3: for an identified instance and 0 <= v <= capacity each of the four
\* updates succeeds and get_by_id right after it returns the instance with
\* that current value equal to v.
C3_ValidUpdateStored ==
    \A i \in Ids :
        Identified(redis, i) =>
            LET cur == get_by_id(redis, i).aircraft IN
            /\ \A v \in 0..cur.passenger_capacity :
                   LET res == update_passengers(redis, i, v) IN
                   /\ res.status = 200
                   /\ get_by_id(res.redis, i).status = 200
                   /\ get_by_id(res.redis, i).aircraft.actual_passengers = v
            /\ \A v \in 0..cur.baggage_capacity_kg :
                   LET res == update_baggage(redis, i, v) IN
                   /\ res.status = 200
                   /\ get_by_id(res.redis, i).status = 200
                   /\ get_by_id(res.redis, i).aircraft.actual_baggage_kg = v
            /\ \A v \in 0..cur.water_capacity :
                   LET res == update_water(redis, i, v) IN
                   /\ res.status = 200
                   /\ get_by_id(res.redis, i).status = 200
                   /\ get_by_id(res.redis, i).aircraft.actual_water_kg = v
            /\ \A v \in 0..cur.fuel_capacity :
                   LET res == update_fuel(redis, i, v) IN
                   /\ res.status = 200
                   /\ get_by_id(res.redis, i).status = 200
                   /\ get_by_id(res.redis, i).aircraft.actual_fuel_kg = v

C3_Witness ==
    /\ last.op = "update_water"
    /\ last.status = 200
    /\ DOMAIN redis.flight = Flights
    /\ \E i \in Ids :
           /\ Identified(redis, i)
           /\ get_by_id(redis, i).aircraft.actual_water_kg = 1
           /\ get_by_id(redis, i).aircraft.actual_passengers = 0

\* C4: while the record of a flight exists its id never changes from a
\* non-null value to another value or to null.
C4_IdNeverChanges ==
    [][\A f \in DOMAIN redis.flight \cap DOMAIN redis'.flight :
           Stored(redis, f).id # None => Stored(redis', f).id = Stored(redis, f).id]_vars

\* C5: with requests run one at a time, no two distinct stored flight records
\* carry the same non-null id.
C5_IdsUnique ==
    \A f \in DOMAIN redis.flight, g \in DOMAIN redis.flight :
        (f # g /\ Stored(redis, f).id # None) => Stored(redis, f).id # Stored(redis, g).id

C5_Witness ==
    /\ last.op = "set_aircraft_id"
    /\ last.detail = "exists"
    /\ DOMAIN redis.flight = Flights
    /\ \A f \in Flights : Stored(redis, f).id # None

\* C6: for an existing flight and an id with no index entry, set_aircraft_id
\* succeeds and get_by_id(id) then returns the instance get_by_flight_id
\* returned before, with id set to the new id and flight_id the flight.
C6_AssignThenGetById ==
    \A f \in DOMAIN redis.flight :
        \A i \in Ids \ DOMAIN redis.aircraft_to_flight :
            LET before == get_by_flight_id(redis, f).aircraft
                res == set_aircraft_id(redis, f, i)
                after == get_by_id(res.redis, i)
            IN /\ res.status = 200
               /\ after.status = 200
               /\ after.aircraft.id = i
               /\ after.aircraft.flight_id = f
               /\ after.aircraft = [before EXCEPT !.id = i]

C6_Witness ==
    /\ last.op = "set_aircraft_id"
    /\ last.status = 200
    /\ \E i \in Ids :
           /\ get_by_id(redis, i).status = 200
           /\ get_by_id(redis, i).aircraft.id = i
           /\ get_by_id(redis, i).aircraft.flight_id = redis.aircraft_to_flight[i]

\* the index resolves id i to the existing record of flight f
MapsTo(r, i, f) ==
    /\ i \in DOMAIN r.aircraft_to_flight
    /\ r.aircraft_to_flight[i] = f
    /\ f \in DOMAIN r.flight

\* C7: when the id maps through the index to the existing record of flight F1,
\* set_aircraft_id(F2, id) for another existing flight F2 fails with the
\* already-exists error and leaves both records and the index as they were.
C7_ConflictOtherFlightNoChange ==
    \A i \in Ids, f1 \in Flights, f2 \in DOMAIN redis.flight :
        (MapsTo(redis, i, f1) /\ f2 # f1) =>
            LET res == set_aircraft_id(redis, f2, i) IN
            /\ res.status = 400
            /\ res.detail = "exists"
            /\ res.redis = redis

C7_Witness ==
    /\ last.op = "set_aircraft_id"
    /\ last.status = 400
    /\ last.detail = "exists"
    /\ \E i \in Ids, f1 \in Flights, f2 \in DOMAIN redis.flight :
           /\ MapsTo(redis, i, f1) /\ f2 # f1
           /\ Stored(redis, f1).id = i
           /\ Stored(redis, f2).id = None

\* the state right after set_aircraft_id(f, i) succeeded
Assigned(r, i, f) == MapsTo(r, i, f) /\ Stored(r, f).id = i

\* C8 as stated: repeating set_aircraft_id(f, i) after it succeeded does not
\* fail with the already-exists error and leaves record and index unchanged.
C8_RepeatIsIdempotent ==
    \A i \in Ids, f \in Flights :
        Assigned(redis, i, f) =>
            LET res == set_aircraft_id(redis, f, i) IN
            /\ res.detail # "exists"
            /\ res.redis = redis

\* C8 amended: repeating set_aircraft_id(f, i) after it succeeded fails with
\* the same already-exists error (400) as for another flight, and leaves the
\* record and the index unchanged.
C8_RepeatFailsNoChange ==
    \A i \in Ids, f \in Flights :
        Assigned(redis, i, f) =>
            LET res == set_aircraft_id(redis, f, i) IN
            /\ res.status = 400
            /\ res.detail = "exists"
            /\ res.redis = redis

C8_Witness ==
    /\ last.op = "set_aircraft_id"
    /\ last.detail = "exists"
    /\ \E i \in Ids, f \in Flights :
           /\ Assigned(redis, i, f)
           /\ DOMAIN redis.flight = {f}
           /\ DOMAIN redis.aircraft_to_flight = {i}

\* C9: when delete(id) returns true for an id the index maps to flight f, the
\* flight record and the index entry are gone: get_by_id(id) and
\* get_by_flight_id(f) then both answer 404.
C9_DeleteThenNotFound ==
    \A i \in DOMAIN redis.aircraft_to_flight :
        LET f == redis.aircraft_to_flight[i]
            res == delete(redis, i)
        IN res.ret =>
               /\ get_by_id(res.redis, i).status = 404
               /\ get_by_flight_id(res.redis, f).status = 404
               /\ i \notin DOMAIN res.redis.aircraft_to_flight
               /\ f \notin DOMAIN res.redis.flight

C9_Witness ==
    /\ last.op = "delete"
    /\ last.ret = "True"
    /\ DOMAIN redis.flight = {}
    /\ DOMAIN redis.aircraft_to_flight = {}

\* C10: delete(id) for an id without index entry returns false, raises nothing
\* and leaves every record, every index entry and flights:all unchanged.
C10_DeleteUnknownIsNoOp ==
    \A i \in Ids \ DOMAIN redis.aircraft_to_flight :
        LET res == delete(redis, i) IN
        /\ res.status = 200
        /\ res.ret = FALSE
        /\ res.redis = redis

C10_Witness ==
    /\ last.op = "delete"
    /\ last.ret = "False"
    /\ last.status = 200
    /\ DOMAIN redis.flight # {}
    /\ DOMAIN redis.aircraft_to_flight # {}

\* C11: for every id for which get_by_id(id) succeeds, update(get_by_id(id))
\* with no modification succeeds and leaves the flight records, the index and
\* flights:all exactly as they were.
C11_SaveOfGetByIdRoundTrip ==
    \A i \in Ids :
        LET got == get_by_id(redis, i) IN
        got.status = 200 =>
            LET res == update(redis, got.aircraft) IN
            /\ res.status = 200
            /\ res.redis = redis

\* C12: for every configured model and every flight_id, generate_random stores
\* under the flight key a record whose four capacities are the configuration
\* entry of the model, whose four current values are within 0..capacity and
\* whose id is unset, adds flight_id to flights:all, and get_by_flight_id
\* then returns that record.
C12_CreateRandomStoresConfiguredRecord ==
    \A f \in Flights, m \in DOMAIN aircraft :
        \A res \in generate_random(redis, aircraft, f, m) :
            /\ res.status = 200
            /\ f \in DOMAIN res.redis.flight
            /\ LET a == Stored(res.redis, f) IN
               /\ a = res.aircraft
               /\ a.model = m
               /\ a.flight_id = f
               /\ a.passenger_capacity = aircraft[m].passenger_capacity
               /\ a.baggage_capacity_kg = aircraft[m].baggage_capacity_kg
               /\ a.water_capacity = aircraft[m].water_capacity
               /\ a.fuel_capacity = aircraft[m].fuel_capacity
               /\ WithinCapacity(a)
               /\ a.id = None
            /\ f \in res.redis.flights_all
            /\ LET got == get_by_flight_id(res.redis, f) IN
               got.status = 200 /\ got.aircraft = res.aircraft

\* a generate_random that replaced an identified record of another model
C12_Witness ==
    /\ last.op = "generate_random"
    /\ last.status = 200
    /\ \E f \in DOMAIN redis.flight :
           /\ Stored(redis, f).id = None
           /\ Stored(redis, f).model = "A320"
           /\ Stored(redis, f).actual_passengers = 1
           /\ f \in redis.flights_all
           /\ \E i \in DOMAIN redis.aircraft_to_flight : redis.aircraft_to_flight[i] = f

\* a registration answer that carries both identifiers
Complete(gc) == gc.ok /\ gc.vehicleId # None /\ gc.garrageNodeId # None

Reports(out) == {k \in 1..Len(out) : out[k].call = "report_landing"}

\* C13: when landing_aircraft(flight_id) answers 200 after Ground-Control
\* returned vehicle id V and node N, the stored record of flight_id has id = V
\* and node_id = N, the index maps V to flight_id, exactly one landing report
\* (V, N) went to the Orchestrator gateway, and the call returns V.
C13_LandingSuccessPersistsAndReports ==
    \A f \in Flights, gc \in GCResponses, o \in BOOLEAN :
        LET res == landing_aircraft(redis, f, gc, o) IN
        res.status = 200 =>
            /\ Complete(gc)
            /\ f \in DOMAIN res.redis.flight
            /\ Stored(res.redis, f).id = gc.vehicleId
            /\ Stored(res.redis, f).node_id = gc.garrageNodeId
            /\ MapsTo(res.redis, gc.vehicleId, f)
            /\ Cardinality(Reports(res.outbox)) = 1
            /\ \A k \in Reports(res.outbox) :
                   res.outbox[k] = ReportCall(gc.vehicleId, gc.garrageNodeId)
            /\ res.ret = gc.vehicleId

C13_Witness ==
    /\ last.op = "landing"
    /\ last.status = 200
    /\ last.ret = "AC2"
    /\ outbox = <<RegisterCall, ReportCall("AC2", "N1")>>
    /\ \E f \in DOMAIN redis.flight :
           /\ Stored(redis, f).id = "AC2"
           /\ Stored(redis, f).node_id = "N1"
           /\ MapsTo(redis, "AC2", f)

\* C14: when the registration answer lacks the vehicle id or the node id,
\* landing_aircraft answers 502 (not the generic 500), assigns no id and
\* leaves the backend unchanged.
C14_IncompleteRegistrationIsBadGateway ==
    \A f \in DOMAIN redis.flight, gc \in GCResponses, o \in BOOLEAN :
        (gc.ok /\ ~Complete(gc)) =>
            LET res == landing_aircraft(redis, f, gc, o) IN
            /\ res.status = 502
            /\ res.redis = redis

\* C15: when Ground-Control returns a vehicle id that is already assigned to
\* another flight, landing_aircraft answers with the already-exists error of
\* set_aircraft_id itself (400), not with the generic 500.
C15_LandingConflictUnwrapped ==
    \A f \in DOMAIN redis.flight, f1 \in Flights, gc \in GCResponses, o \in BOOLEAN :
        (Complete(gc) /\ f1 # f /\ MapsTo(redis, gc.vehicleId, f1)) =>
            LET res == landing_aircraft(redis, f, gc, o) IN
            /\ res.status = set_aircraft_id(redis, f, gc.vehicleId).status
            /\ res.status = 400
            /\ res.detail = "exists"

\* C16: landing_aircraft for a flight_id without flight record answers 404
\* before any gateway call: neither register_vehicle nor report_landing is
\* invoked and the backend is unchanged.
C16_LandingUnknownFlightNoGatewayCall ==
    \A f \in Flights \ DOMAIN redis.flight, gc \in GCResponses, o \in BOOLEAN :
        LET res == landing_aircraft(redis, f, gc, o) IN
        /\ res.status = 404
        /\ res.outbox = <<>>
        /\ res.redis = redis

C16_Witness ==
    /\ last.op = "landing"
    /\ last.status = 404
    /\ outbox = <<>>
    /\ DOMAIN redis.flight # {}
    /\ DOMAIN redis.flight # Flights

\* C17: when report_landing fails after set_aircraft_id and update completed,
\* landing_aircraft answers 500 carrying the cause, and the stored record
\* keeps the assigned id and node_id and the index entry of the id remains.
C17_LandingNoRollback ==
    \A f \in DOMAIN redis.flight, gc \in GCResponses :
        (Complete(gc) /\ set_aircraft_id(redis, f, gc.vehicleId).status = 200) =>
            LET res == landing_aircraft(redis, f, gc, FALSE) IN
            /\ res.status = 500
            /\ res.detail = "orch_error"
            /\ Stored(res.redis, f).id = gc.vehicleId
            /\ Stored(res.redis, f).node_id = gc.garrageNodeId
            /\ MapsTo(res.redis, gc.vehicleId, f)

C17_Witness ==
    /\ last.op = "landing"
    /\ last.status = 500
    /\ last.detail = "orch_error"
    /\ Len(outbox) = 2
    /\ \E f \in DOMAIN redis.flight :
           /\ outbox[2] = ReportCall(Stored(redis, f).id, "N1")
           /\ Stored(redis, f).node_id = "N1"
           /\ MapsTo(redis, Stored(redis, f).id, f)

\* C18: takeoff_aircraft for an id without index entry is answered as a
\* failure, not as a successful takeoff (status 200).
C18_TakeoffUnknownFails ==
    \A i \in Ids \ DOMAIN redis.aircraft_to_flight :
        takeoff_aircraft(redis, i).status # 200

\* a response the loop is said not to retry: 4xx other than 429
NonRetryable(o) ==
    o.kind = "response" /\ 400 <= o.status /\ o.status < 500 /\ o.status # 429

\* a failure the loop is said to retry: 429, 5xx, connection error, timeout
Retryable(o) ==
    \/ o.kind \in {"ClientError", "TimeoutError"}
    \/ o.kind = "response" /\ (o.status = 429 \/ o.status >= 500)

\* C19: an attempt answered with a 4xx other than 429 is the call's last: the
\* error is raised at once, with no sleep and no further request after it,
\* whatever the retry cap.
C19_ClientErrorNeverRetried ==
    \A k \in 1..Len(gw.attempts) :
        NonRetryable(gw.attempts[k]) =>
            /\ gw.pc = "raised"
            /\ gw.raised = gw.attempts[k]
            /\ Len(gw.attempts) = k
            /\ Len(gw.sleeps) = k - 1

AllRetryable(g) == \A k \in 1..Len(g.attempts) : Retryable(g.attempts[k])

\* C20: with a retry cap N > 0 and a retryable failure on every attempt, the
\* call ends: it never makes more than N+1 attempts or N sleeps, after the
\* (N+1)-th failure it has raised, and it raises only then, with the error of
\* the last attempt.
C20_FiniteCapTerminates ==
    (gw.max_retries > 0 /\ AllRetryable(gw)) =>
        LET N == gw.max_retries IN
        /\ Len(gw.attempts) <= N + 1
        /\ Len(gw.sleeps) <= N
        /\ gw.pc # "returned"
        /\ Len(gw.attempts) = N + 1 => gw.pc = "raised"
        /\ gw.pc = "raised" =>
               /\ Len(gw.attempts) = N + 1
               /\ Len(gw.sleeps) = N
               /\ gw.raised = gw.attempts[N + 1]

C20_Witness ==
    /\ gw.pc = "raised"
    /\ gw.max_retries = 2
    /\ AllRetryable(gw)
    /\ Len(gw.attempts) = 3
    /\ Len(gw.sleeps) = 2
    /\ gw.raised = Failure("TimeoutError")
    /\ gw.attempts[1] = Response(429, "err")

\* C21: when attempts 1..k-1 failed retryably and attempt k is answered with a
\* status in [200,300), with k-1 within the retry cap or the cap 0, the call
\* has returned the body of attempt k after exactly k attempts and k-1 sleeps;
\* no attempt follows a 2xx answer.
C21_SuccessAfterRetriesReturnsBody ==
    \A k \in 1..Len(gw.attempts) :
        (/\ Success2xx(gw.attempts[k])
         /\ \A j \in 1..(k - 1) : Retryable(gw.attempts[j])
         /\ (gw.max_retries = 0 \/ k - 1 <= gw.max_retries)) =>
            /\ gw.pc = "returned"
            /\ gw.returned = (IF gw.attempts[k].body = "" THEN None ELSE gw.attempts[k].body)
            /\ Len(gw.attempts) = k
            /\ Len(gw.sleeps) = k - 1

\* the first sleep is the initial delay, each later one is
\* min(previous * multiplier, maximum)
Recurrence(g) ==
    /\ Len(g.sleeps) >= 1 => g.sleeps[1] = g.retry_delay
    /\ \A k \in 2..Len(g.sleeps) :
           g.sleeps[k] = Min(g.sleeps[k - 1] * g.retry_multiplier, g.max_retry_delay)

\* strictly increasing below the maximum, constant from the maximum on
IncreasingThenConstant(g) ==
    \A k \in 2..Len(g.sleeps) :
        /\ g.sleeps[k - 1] < g.max_retry_delay => g.sleeps[k] > g.sleeps[k - 1]
        /\ g.sleeps[k - 1] >= g.max_retry_delay => g.sleeps[k] = g.sleeps[k - 1]

\* C22 as stated: the sleeps of one call follow the recurrence, and with
\* multiplier > 1 they are strictly increasing until they reach the maximum
\* delay and constant afterwards.
C22_BackoffRecurrence ==
    /\ Recurrence(gw)
    /\ gw.retry_multiplier > 1 => IncreasingThenConstant(gw)

\* C22 amended: the sleeps of one call follow the recurrence, and with
\* multiplier > 1 and 0 < initial delay <= maximum delay they are strictly
\* increasing until they reach the maximum delay and constant afterwards.
C22_BackoffRecurrenceWithinMaximum ==
    /\ Recurrence(gw)
    /\ (/\ gw.retry_multiplier > 1
        /\ 0 < gw.retry_delay
        /\ gw.retry_delay <= gw.max_retry_delay) => IncreasingThenConstant(gw)

C22_Witness ==
    /\ gw.retry_multiplier = 2
    /\ gw.sleeps = <<1, 2, 4, 4>>

\* no attempt of the call was answered with a 2xx status
OnlyFailures(g) == \A k \in 1..Len(g.attempts) : ~Success2xx(g.attempts[k])

\* with cap 0 no error is raised, and while every attempt fails the call is
\* still at a request or in a sleep
C23_NeverGivesUp ==
    gw.max_retries = 0 =>
        /\ gw.pc # "raised"
        /\ gw.raised = NoOutcome
        /\ (OnlyFailures(gw) /\ Len(gw.attempts) < MaxAttempts) => gw.pc \in {"request", "sleep"}

\* C23: with retry cap 0 a call raises no error however many failures occur
\* and does not end while the service keeps failing, and when the service
\* eventually answers with a 2xx status the call eventually returns.
C23_UnboundedRetryEventuallyReturns ==
    /\ [](C23_NeverGivesUp)
    /\ (gw.max_retries = 0) ~> (gw.pc = "returned")

Capacities(a) ==
    <<a.passenger_capacity, a.baggage_capacity_kg, a.water_capacity, a.fuel_capacity>>

\* C24: no request changes the four capacities of a flight record that exists
\* before and after it: they stay those written when the record was created,
\* generate_random called again for the same flight included.
C24_CapacitiesNeverChange ==
    [][\A f \in DOMAIN redis.flight \cap DOMAIN redis'.flight :
           Capacities(Stored(redis', f)) = Capacities(Stored(redis, f))]_vars

\* C25: the status of a duplicate identifier assignment (set_aircraft_id's
\* already-exists error) differs from the status of a rejected mutation
\* (capacity exceeded) and from the status of not-found.
C25_ErrorCategoriesDistinct ==
    \A f \in Flights, i \in Ids :
        LET conflict == set_aircraft_id(redis, f, i) IN
        conflict.detail = "exists" =>
            /\ \A j \in Ids, v \in Values(FALSE) :
                   LET rejected == update_passengers(redis, j, v) IN
                   rejected.detail = "capacity" => rejected.status # conflict.status
            /\ \A j \in Ids :
                   LET missing == get_by_id(redis, j) IN
                   missing.status # 200 => missing.status # conflict.status

\* instances update may be handed: every stored record and a new instance of
\* every configured model, under every id or none
Instances(r) ==
    {[a EXCEPT !.id = i] :
        a \in {model_validate_json(r.flight[f]) : f \in DOMAIN r.flight}
              \cup {AircraftInstance(m, f, aircraft[m], 0, 0, 0, 0) :
                        m \in DOMAIN aircraft, f \in Flights},
        i \in Ids \cup {None}}

\* C26: update(instance) fails with 400 when the instance has no id, with 404
\* when the index has no entry for the id, and with 404 when the entry exists
\* but the flight record it names is missing; in each case the backend is
\* left as it was.
C26_SaveFailuresWriteNothing ==
    \A a \in Instances(redis) :
        LET res == update(redis, a) IN
        /\ a.id = None => (res.status = 400 /\ res.detail = "no_id" /\ res.redis = redis)
        /\ (a.id # None /\ a.id \notin DOMAIN redis.aircraft_to_flight) =>
               (res.status = 404 /\ res.detail = "no_mapping" /\ res.redis = redis)
        /\ (a.id \in DOMAIN redis.aircraft_to_flight
            /\ redis.aircraft_to_flight[a.id] \notin DOMAIN redis.flight) =>
               (res.status = 404 /\ res.detail = "no_flight_data" /\ res.redis = redis)

C26_Witness ==
    /\ last.op = "update"
    /\ last.status = 404
    /\ last.detail = "no_flight_data"
    /\ \E i \in DOMAIN redis.aircraft_to_flight :
           redis.aircraft_to_flight[i] \notin DOMAIN redis.flight
    /\ \E f \in DOMAIN redis.flight : Stored(redis, f).id = None

\* at most one request in progress names flight f
SoleWriter(f) == Cardinality({q \in Requests : proc[q].flight_id = f}) <= 1

\* C27: set_aircraft_id writes the flight record carrying the id before the
\* index entry: at every point of the request, stopped points included, an
\* index entry id -> flight exists only if the record of that flight already
\* carries the id (identified but unindexed is possible, indexed but
\* unidentified is not).  Stated for flights a single request is writing.
C27_RecordWrittenBeforeIndex ==
    \A i \in DOMAIN redis.aircraft_to_flight :
        LET f == redis.aircraft_to_flight[i] IN
        SoleWriter(f) =>
            /\ f \in DOMAIN redis.flight
            /\ Stored(redis, f).id = i

\* between the two writes: identified, not yet indexed
C27_Witness ==
    \E q \in Requests :
        /\ proc[q].pc = "set_mapping"
        /\ SoleWriter(proc[q].flight_id)
        /\ Stored(redis, proc[q].flight_id).id = proc[q].aircraft_id
        /\ proc[q].aircraft_id \notin DOMAIN redis.aircraft_to_flight

\* both requests ended with 200 after asking the same id for two flights
BothAssigned(q1, q2) ==
    /\ q1 # q2
    /\ proc[q1].pc = "done" /\ proc[q1].status = 200
    /\ proc[q2].pc = "done" /\ proc[q2].status = 200
    /\ proc[q1].aircraft_id = proc[q2].aircraft_id
    /\ proc[q1].flight_id # proc[q2].flight_id

\* C28: the already-exists check does not hold under interleaving: two
\* concurrent set_aircraft_id requests with the same id for two flights can
\* both succeed (C28_Witness), and whenever they do the two flight records
\* carry the same id while the index maps the id to one of them only.
C28_InterleavedAssignDuplicatesId ==
    \A q1 \in Requests, q2 \in Requests :
        BothAssigned(q1, q2) =>
            LET i == proc[q1].aircraft_id IN
            /\ Stored(redis, proc[q1].flight_id).id = i
            /\ Stored(redis, proc[q2].flight_id).id = i
            /\ redis.aircraft_to_flight[i] \in {proc[q1].flight_id, proc[q2].flight_id}
            /\ \A j \in DOMAIN redis.aircraft_to_flight : j = i

C28_Witness ==
    /\ BothAssigned("r1", "r2")
    /\ Stored(redis, "FL100").id = "AC1"
    /\ Stored(redis, "FL200").id = "AC1"
    /\ redis.aircraft_to_flight = [i \in {"AC1"} |-> proc["r1"].flight_id]

\* C29: after any sequence of completed requests a flight_id is a member of
\* flights:all if and only if a record exists under its flight key.
C29_FlightsAllTracksRecords ==
    redis.flights_all = DOMAIN redis.flight

\* a flight was created and another one deleted
C29_Witness ==
    /\ last.op = "delete"
    /\ last.ret = "True"
    /\ redis.flights_all = {"FL100"}
    /\ DOMAIN redis.flight = {"FL100"}

\* C30: set_aircraft_id never redirects an index entry: when the index holds
\* id -> F1, whether or not the record of F1 exists, no set_aircraft_id(F2, id)
\* with F2 # F1 leaves the entry pointing to F2.
C30_IndexEntryNeverRedirected ==
    \A i \in DOMAIN redis.aircraft_to_flight, f2 \in Flights :
        f2 # redis.aircraft_to_flight[i] =>
            LET res == set_aircraft_id(redis, f2, i) IN
            res.redis.aircraft_to_flight[i] = redis.aircraft_to_flight[i]

\* C31: in a landing call the report goes to the Orchestrator gateway only
\* after the id assignment (record and index entry) and the node id write are
\* persisted: whenever a landing call has sent the report (whether or not the
\* report then failed), the backend it leaves holds the record of the flight
\* with the reported id and node id and the index entry of that id.
C31_ReportOnlyAfterPersisted ==
    /\ \A f \in Flights, gc \in GCResponses, o \in BOOLEAN :
           LET res == landing_aircraft(redis, f, gc, o) IN
           \A k \in Reports(res.outbox) :
               /\ f \in DOMAIN res.redis.flight
               /\ Stored(res.redis, f).id = res.outbox[k].aircraft_id
               /\ Stored(res.redis, f).id # None
               /\ Stored(res.redis, f).node_id = res.outbox[k].landing_point
               /\ Stored(res.redis, f).node_id # None
               /\ MapsTo(res.redis, res.outbox[k].aircraft_id, f)
    /\ \A k \in Reports(outbox) :
           \E f \in DOMAIN redis.flight :
               /\ Stored(redis, f).id = outbox[k].aircraft_id
               /\ Stored(redis, f).node_id = outbox[k].landing_point
               /\ MapsTo(redis, outbox[k].aircraft_id, f)

\* a landing whose report failed right after it was sent: the record already
\* carries the id and the node id of a flight that had neither before
C31_Witness ==
    /\ last.op = "landing"
    /\ last.detail = "orch_error"
    /\ outbox = <<RegisterCall, ReportCall("AC1", "N1")>>
    /\ "FL200" \in DOMAIN redis.flight
    /\ Stored(redis, "FL200").id = "AC1"
    /\ Stored(redis, "FL200").node_id = "N1"
    /\ MapsTo(redis, "AC1", "FL200")

\* an index entry whose flight record is missing
Stale(r, i) ==
    /\ i \in DOMAIN r.aircraft_to_flight
    /\ r.aircraft_to_flight[i] \notin DOMAIN r.flight

\* C32: delete(id) returns true whenever the index has an entry for id at the
\* time of the call, also when the flight record the entry points to is
\* already missing; the entry is removed in either case.
C32_DeleteTrueOnIndexEntry ==
    \A i \in DOMAIN redis.aircraft_to_flight :
        LET res == delete(redis, i) IN
        /\ res.status = 200
        /\ res.ret = TRUE
        /\ i \notin DOMAIN res.redis.aircraft_to_flight
        /\ redis.aircraft_to_flight[i] \notin DOMAIN res.redis.flight

\* a delete through AC1 has left the entry of AC2 pointing at a record that
\* no longer exists; delete(AC2) on this backend returns true and removes it
C32_Witness ==
    /\ last.op = "delete"
    /\ last.ret = "True"
    /\ Stale(redis, "AC2")
    /\ delete(redis, "AC2").ret = TRUE
    /\ delete(redis, "AC2").redis.aircraft_to_flight = EmptyMap

\* node ids of the requests C33 looks at: those of the specification, one
\* more, and the empty string
NodeValues == NodeIds \cup {"N2", ""}

\* backend rr differs from r at most in the record of the flight id i
\* resolves to, and that record is a
OnlyRecordOf(r, rr, i, a) ==
    LET f == r.aircraft_to_flight[i] IN
    /\ rr.aircraft_to_flight = r.aircraft_to_flight
    /\ rr.flights_all = r.flights_all
    /\ DOMAIN rr.flight = DOMAIN r.flight
    /\ \A g \in DOMAIN r.flight \ {f} : rr.flight[g] = r.flight[g]
    /\ Stored(rr, f) = a

\* C33: a successful update_passengers, update_baggage, update_water,
\* update_fuel or update_node_id on an id changes only its own field of the
\* record the id resolves to: id, flight id, model, capacities and the other
\* current fields stay, the index and flights:all stay, the records of the
\* other flights stay; update_node_id succeeds for any node id.
C33_UpdateChangesOnlyItsField ==
    \A i \in Ids :
        get_by_id(redis, i).status = 200 =>
            LET cur == get_by_id(redis, i).aircraft IN
            /\ \A v \in Values(FALSE) :
                   /\ LET res == update_passengers(redis, i, v) IN
                      res.status = 200 =>
                          OnlyRecordOf(redis, res.redis, i, [cur EXCEPT !.actual_passengers = v])
                   /\ LET res == update_baggage(redis, i, v) IN
                      res.status = 200 =>
                          OnlyRecordOf(redis, res.redis, i, [cur EXCEPT !.actual_baggage_kg = v])
                   /\ LET res == update_water(redis, i, v) IN
                      res.status = 200 =>
                          OnlyRecordOf(redis, res.redis, i, [cur EXCEPT !.actual_water_kg = v])
                   /\ LET res == update_fuel(redis, i, v) IN
                      res.status = 200 =>
                          OnlyRecordOf(redis, res.redis, i, [cur EXCEPT !.actual_fuel_kg = v])
            /\ \A n \in NodeValues :
                   LET res == update_node_id(redis, i, n) IN
                   /\ cur.id # None => res.status = 200
                   /\ res.status = 200 =>
                          OnlyRecordOf(redis, res.redis, i, [cur EXCEPT !.node_id = n])

\* a fuel update went through on a backend with two identified flights, one
\* of them with a node id
C33_Witness ==
    /\ last.op = "update_fuel"
    /\ last.status = 200
    /\ DOMAIN redis.flight = Flights
    /\ Stored(redis, "FL100").id = "AC1"
    /\ Stored(redis, "FL100").node_id = "N1"
    /\ Stored(redis, "FL100").actual_fuel_kg = 1
    /\ Stored(redis, "FL200").id = "AC2"
    /\ MapsTo(redis, "AC1", "FL100")
    /\ MapsTo(redis, "AC2", "FL200")

\* registration answers of a register_vehicle call that raised
Raised == {gc \in GCResponses : ~gc.ok}

\* C34: when register_vehicle raises (retries used up, or an error raised),
\* landing_aircraft fails and writes nothing: the backend is the one of before
\* the call (the record has no id or node id from this call, no index entry
\* is made) and report_landing is not called.
C34_FailedRegistrationWritesNothing ==
    \A f \in Flights, gc \in Raised, o \in BOOLEAN :
        LET res == landing_aircraft(redis, f, gc, o) IN
        /\ res.status >= 400
        /\ f \in DOMAIN redis.flight => res.status = 500 /\ res.outbox = <<RegisterCall>>
        /\ res.ret = None
        /\ res.redis = redis
        /\ Reports(res.outbox) = {}

\* the landing of a flight was refused because registration raised: the
\* record is there without id and node id, and the index is empty
C34_Witness ==
    /\ last.op = "landing"
    /\ last.status = 500
    /\ last.detail = "gc_error"
    /\ outbox = <<RegisterCall>>
    /\ DOMAIN redis.flight = {"FL100"}
    /\ Stored(redis, "FL100").id = None
    /\ Stored(redis, "FL100").node_id = None
    /\ redis.aircraft_to_flight = EmptyMap

\* C35: index consistency: in every state reached by completed operations,
\* every index entry id -> flight whose flight record exists points to a
\* record whose id field is id, so get_by_id(id), when it succeeds, returns an
\* instance with that id.
C35_IndexConsistency ==
    \A i \in DOMAIN redis.aircraft_to_flight :
        get_by_id(redis, i).status = 200 => get_by_id(redis, i).aircraft.id = i

\* C36: after delete(id) returned true for an instance of a flight, no index
\* entry of any id points to that flight any more, so a record generate_random
\* creates later for the same flight cannot be reached through an id assigned
\* before the deletion.
C36_DeleteLeavesNoEntryForFlight ==
    \A i \in DOMAIN redis.aircraft_to_flight :
        LET f == redis.aircraft_to_flight[i]
            d == delete(redis, i)
        IN
        d.ret =>
            /\ \A j \in DOMAIN d.redis.aircraft_to_flight :
                   d.redis.aircraft_to_flight[j] # f
            /\ \A g \in generate_random(d.redis, aircraft, f, None), j \in Ids :
                   g.status = 200 => ~MapsTo(g.redis, j, f)

\* both requests are done, each answered 200, one an update_passengers and
\* the other an update_fuel for the same id
BothUpdated(q1, q2) ==
    /\ proc[q1].pc = "done" /\ proc[q1].status = 200
    /\ proc[q2].pc = "done" /\ proc[q2].status = 200
    /\ proc[q1].op = "update_passengers"
    /\ proc[q2].op = "update_fuel"
    /\ proc[q1].aircraft_id = proc[q2].aircraft_id

\* C37: no lost update: when an update_passengers and an update_fuel request
\* for the same id run interleaved at the granularity of backend calls and
\* both succeed, the stored record afterwards holds both new values.
C37_NoLostUpdate ==
    \A q1, q2 \in Requests :
        BothUpdated(q1, q2) =>
            LET got == get_by_id(redis, proc[q1].aircraft_id) IN
            /\ got.status = 200
            /\ got.aircraft.actual_passengers = proc[q1].value
            /\ got.aircraft.actual_fuel_kg = proc[q2].value

\* C38: a deleted instance stays deleted: once a delete request for an id has
\* completed with true, the flight record it removed stays absent (no
\* generate_random follows), also when an update request for the same id was
\* under way at the same time.
C38_DeletedStaysDeleted ==
    \A q \in Requests :
        (proc[q].op = "delete" /\ proc[q].pc = "done" /\ proc[q].ret = TRUE) =>
            proc[q].mapped \notin DOMAIN redis.flight

\* C39: every sleep of the retry loop is at most the configured maximum retry
\* delay, for every setting of initial delay, multiplier and maximum delay,
\* an initial delay above the maximum included.
C39_SleepsWithinMaximum ==
    \A k \in 1..Len(gw.sleeps) : gw.sleeps[k] <= gw.max_retry_delay

====
